---- MODULE Spec2Model ----
(***************************************************************************)
(* Model of the PNG metadata editor's MetadataHandler (src/metadata.py)    *)
(* and of limit_text_lines (src/utils.py).                                 *)
(*                                                                         *)
(* A Python str is modelled as the sequence of its whitespace characters   *)
(* (" " and "\n") and of its maximal whitespace-free runs ("words"), so    *)
(* "Image Width" is <<"Image", " ", "Width">> and "" is <<>>.  Two texts   *)
(* are equal exactly when the strings are, as long as no two words are     *)
(* adjacent; Cat keeps that form.                                          *)
(***************************************************************************)
EXTENDS Integers, Sequences, FiniteSets, TLC

(***************************************************************************)
(* Bounds of the model and program constants.                              *)
(***************************************************************************)
MaxEdits == 1
MaxSaves == 1
MaxLines == 12
MaxTextLines == 14
MaxCalls == 2

(***************************************************************************)
(* Strings.                                                                *)
(***************************************************************************)
NL == "\n"
SP == " "
EmptyText == <<>>

IsWs(c) == c \in {SP, NL}

\* s + t
Cat(s, t) ==
  IF s = <<>> THEN t
  ELSE IF t = <<>> THEN s
  ELSE IF ~IsWs(s[Len(s)]) /\ ~IsWs(t[1])
       THEN SubSeq(s, 1, Len(s) - 1) \o <<s[Len(s)] \o t[1]>> \o Tail(t)
       ELSE s \o t

RECURSIVE LStrip(_)
LStrip(s) == IF s # <<>> /\ IsWs(s[1]) THEN LStrip(Tail(s)) ELSE s

RECURSIVE RStrip(_)
RStrip(s) ==
  IF s # <<>> /\ IsWs(s[Len(s)]) THEN RStrip(SubSeq(s, 1, Len(s) - 1)) ELSE s

\* str.strip()
Strip(s) == RStrip(LStrip(s))

\* text.split('\n'): the list of lines, never empty ("" splits into [""])
RECURSIVE SplitLines(_)
SplitLines(s) ==
  IF \A i \in 1..Len(s) : s[i] # NL THEN <<s>>
  ELSE LET i == CHOOSE j \in 1..Len(s) :
                  s[j] = NL /\ \A k \in 1..(j - 1) : s[k] # NL
       IN  <<SubSeq(s, 1, i - 1)>> \o SplitLines(SubSeq(s, i + 1, Len(s)))

\* sep.join(parts)
RECURSIVE Join(_, _)
Join(sep, parts) ==
  IF parts = <<>> THEN <<>>
  ELSE IF Len(parts) = 1 THEN parts[1]
  ELSE Cat(Cat(parts[1], sep), Join(sep, Tail(parts)))

LimitMarksWholeText(text, max_lines) ==
  LET lines == SplitLines(text)
  IN  IF Len(lines) > max_lines THEN Cat(text, <<NL, "[...]">>) ELSE text

LimitOffByOne(text, max_lines) ==
  LET lines == SplitLines(text)
  IN  IF Len(lines) >= max_lines
      THEN Cat(Join(<<NL>>, SubSeq(lines, 1, max_lines)), <<NL, "[...]">>)
      ELSE text

\* utils.limit_text_lines
limit_text_lines(text, max_lines) ==
  LET lines == SplitLines(text)
  IN  IF Len(lines) > max_lines
      THEN Cat(Join(<<NL>>, SubSeq(lines, 1, max_lines)), <<NL, "[...]">>)
      ELSE text

\* a text of n lines "l1" .. "ln"
RECURSIVE LinesText(_)
LinesText(n) ==
  IF n = 0 THEN <<>>
  ELSE IF n = 1 THEN <<"l1">>
  ELSE LinesText(n - 1) \o <<NL, "l" \o ToString(n)>>

(***************************************************************************)
(* Decoder values: what Image.info maps a key to.  A str, a tuple or list  *)
(* of ints, or a dict from word keys to ints or to bytes objects (which    *)
(* json cannot serialise).                                                 *)
(***************************************************************************)
StrV(s) == [t |-> "str", s |-> s]
TupleV(e) == [t |-> "tuple", e |-> e]
ListV(e) == [t |-> "list", e |-> e]
DictV(m) == [t |-> "dict", m |-> m]
IntItem(k, n) == [k |-> k, isint |-> TRUE, n |-> n]
BytesItem(k) == [k |-> k, isint |-> FALSE, n |-> 0]

IntTexts(e) == [i \in 1..Len(e) |-> <<ToString(e[i])>>]

\* repr of a dict item's value
ReprItem(it) == IF it.isint THEN <<ToString(it.n)>> ELSE <<"b'.'">>

\* str(value)
PyStr(v) ==
  CASE v.t = "str" -> v.s
    [] v.t = "tuple" ->
         IF Len(v.e) = 1 THEN <<"(" \o ToString(v.e[1]) \o ",)">>
         ELSE Cat(Cat(<<"(">>, Join(<<",", SP>>, IntTexts(v.e))), <<")">>)
    [] v.t = "list" ->
         Cat(Cat(<<"[">>, Join(<<",", SP>>, IntTexts(v.e))), <<"]">>)
    [] v.t = "dict" ->
         Cat(Cat(<<"{">>,
                 Join(<<",", SP>>,
                      [i \in 1..Len(v.m) |->
                         Cat(<<"'" \o v.m[i].k \o "':", SP>>, ReprItem(v.m[i]))])),
             <<"}">>)

\* json.dumps(value, indent=2) raises TypeError on a bytes object
JsonSerializable(v) == \A i \in 1..Len(v.m) : v.m[i].isint

\* json.dumps(value, indent=2) of a serialisable dict
JsonDumps(v) ==
  IF v.m = <<>> THEN <<"{}">>
  ELSE Cat(Cat(<<"{", NL>>,
               Join(<<",", NL>>,
                    [i \in 1..Len(v.m) |->
                       <<SP, SP, "\"" \o v.m[i].k \o "\":", SP,
                         ToString(v.m[i].n)>>])),
           <<NL, "}">>)

\* load_metadata's display rendering of a decoder value
RenderDisplay(v) ==
  CASE v.t \in {"tuple", "list"} -> Join(<<",", SP>>, IntTexts(v.e))
    [] v.t = "dict" -> JsonDumps(v)
    [] OTHER -> PyStr(v)

RenderRaises(v) == v.t = "dict" /\ ~JsonSerializable(v)

(***************************************************************************)
(* Files and the imaging library.  A file is missing, or holds a PNG whose *)
(* pixel data is intact or cut short, with its stored items in file order  *)
(* (text chunks, and other chunks the decoder reports under a key).        *)
(***************************************************************************)
KeyWidth == <<"Image", SP, "Width">>
KeyHeight == <<"Image", SP, "Height">>
KeyMode == <<"Image", SP, "Mode">>
KeyFormat == <<"Image", SP, "Format">>
KeyAuthor == <<"Author">>

MissingFile == [kind |-> "missing"]
PngFile(pix, intact, items) ==
  [kind |-> "png", pix |-> pix, intact |-> intact, items |-> items]

Paths == {"a.png", "b.png", "c.png", "d.png", "t.png", "new.png"}

InitDisk ==
  [p \in Paths |->
     CASE p = "a.png" ->
            PngFile("A", TRUE,
                    << <<KeyAuthor, StrV(LinesText(MaxLines + 1))>> >>)
       [] p = "b.png" ->
            PngFile("B", TRUE,
                    << <<KeyWidth, StrV(<<"999">>)>>,
                       <<<<"Empty">>, StrV(EmptyText)>> >>)
       [] p = "c.png" -> PngFile("C", TRUE, <<>>)
       [] p = "d.png" ->
            PngFile("D", TRUE,
                    << <<<<"dpi">>, TupleV(<<72, 72>>)>>,
                       <<<<"extra">>, DictV(<<IntItem("a", 1)>>)>>,
                       <<<<"blob">>, DictV(<<BytesItem("raw")>>)>> >>)
       [] p = "t.png" ->
            PngFile("T", FALSE, <<>>)
       [] OTHER -> MissingFile]

\* the decoder's dict: a repeated key keeps its first place and its last value
RECURSIVE InfoDict(_, _)
InfoDict(items, acc) ==
  IF items = <<>> THEN acc
  ELSE LET k == items[1][1]
           v == items[1][2]
       IN  InfoDict(Tail(items),
                    IF \E i \in 1..Len(acc) : acc[i][1] = k
                    THEN [i \in 1..Len(acc) |->
                            IF acc[i][1] = k THEN <<k, v>> ELSE acc[i]]
                    ELSE Append(acc, <<k, v>>))

NoImage == [isimage |-> FALSE]

\* Image.open(path) on a PNG file: the image object, which keeps the path it
\* was opened from as filename; load() succeeds iff ok
OpenImage(path, f) ==
  [isimage |-> TRUE, filename |-> path, ok |-> f.intact, pix |-> f.pix,
   format |-> "PNG", info |-> InfoDict(f.items, <<>>)]

Width(img) == IF img.pix = "A" THEN 640 ELSE 32
Height(img) == IF img.pix = "A" THEN 480 ELSE 16
Mode(img) == IF img.pix = "B" THEN "RGBA" ELSE "RGB"

(***************************************************************************)
(* The store: metadata_entries (a dict, kept in insertion order), the tree *)
(* widget's rows, and qt_item_map.  id(item) is the address of the item:   *)
(* the lowest address no live item holds.                                  *)
(***************************************************************************)
EmptyStore == [entries |-> <<>>, tree |-> <<>>, map |-> <<>>]

FreshIdFixed(st) == 1

\* id(item): an address no live item holds
FreshId(st) ==
  LET used == {st.map[i] : i \in 1..Len(st.map)} \cup
              {st.tree[i].item : i \in 1..Len(st.tree)}
  IN  CHOOSE i \in 1..(Cardinality(used) + 1) :
        i \notin used /\ \A j \in 1..(i - 1) : j \in used

NewItemNotShown(st, key, value, full_value, editable) ==
  LET item_id == FreshId(st)
  IN  [entries |-> Append(st.entries,
                          [id |-> item_id, key |-> key, value |-> value,
                           full_value |-> full_value, editable |-> editable]),
       tree |-> st.tree,
       map |-> Append(st.map, item_id)]

\* QTreeWidgetItem(tree, [key, value]) and the two dict stores
NewItem(st, key, value, full_value, editable) ==
  LET item_id == FreshId(st)
  IN  [entries |-> Append(st.entries,
                          [id |-> item_id, key |-> key, value |-> value,
                           full_value |-> full_value, editable |-> editable]),
       tree |-> Append(st.tree, [item |-> item_id, col0 |-> key, col1 |-> value]),
       map |-> Append(st.map, item_id)]

BasicInfoHeightFirst(img) ==
  << <<KeyHeight, <<ToString(Height(img))>>>>,
     <<KeyWidth, <<ToString(Width(img))>>>>,
     <<KeyMode, <<Mode(img)>>>>,
     <<KeyFormat, <<IF img.format = "" THEN "PNG" ELSE img.format>>>> >>

\* lines 82-87
basic_info(img) ==
  << <<KeyWidth, <<ToString(Width(img))>>>>,
     <<KeyHeight, <<ToString(Height(img))>>>>,
     <<KeyMode, <<Mode(img)>>>>,
     <<KeyFormat, <<IF img.format = "" THEN "PNG" ELSE img.format>>>> >>

RECURSIVE AddBasicInfo(_, _)
AddBasicInfo(st, info) ==
  IF info = <<>> THEN st
  ELSE AddBasicInfo(NewItem(st, info[1][1], info[1][2], info[1][2], FALSE),
                    Tail(info))

\* line 121: 'full_value': str(value)
LoadedFullValue(v) == PyStr(v)

\* lines 103-123; stops where json.dumps raises
RECURSIVE AddPngInfo(_, _)
AddPngInfo(st, info) ==
  IF info = <<>> THEN [st |-> st, raised |-> FALSE]
  ELSE LET value == info[1][2]
       IN  IF RenderRaises(value) THEN [st |-> st, raised |-> TRUE]
           ELSE AddPngInfo(NewItem(st, info[1][1],
                                   limit_text_lines(RenderDisplay(value), MaxLines),
                                   LoadedFullValue(value), TRUE),
                           Tail(info))

load_metadata(st, img) ==
  LET png_info == img.info
      withBasic == AddBasicInfo(st, basic_info(img))
      r == AddPngInfo(withBasic, png_info)
  IN  IF r.raised THEN r
      ELSE IF png_info = <<>> /\ basic_info(img) = <<>>
           THEN [st |-> NewItem(r.st, <<"No", SP, "PNG", SP, "metadata">>,
                                <<"found", SP, "in", SP, "this", SP, "file">>,
                                <<"found", SP, "in", SP, "this", SP, "file">>,
                                FALSE),
                 raised |-> FALSE]
           ELSE r

(***************************************************************************)
(* State of the MetadataHandler, the disk, and the modal dialog that is    *)
(* open.  last is the handler call that ran last: its arguments and the    *)
(* notification it raised.                                                 *)
(***************************************************************************)
VARIABLES current_file, current_image, metadata_entries, tree, qt_item_map,
          is_modified, disk, dialog, last, nEdits, nSaves,
          text, shown, calls

vars == <<current_file, current_image, metadata_entries, tree, qt_item_map,
          is_modified, disk, dialog, last, nEdits, nSaves, text, shown, calls>>

\* a direct use of utils.limit_text_lines: the text it was first given, the
\* text it returned last, and how many times it was applied to its own result
limit_vars == <<text, shown, calls>>

\* the state of the handler and the disk
handler_vars == <<current_file, current_image, metadata_entries, tree,
                  qt_item_map, is_modified, disk, dialog, last, nEdits, nSaves>>

NoFile == ""
NoDialog == [kind |-> "none", item_id |-> 0]

Store == [entries |-> metadata_entries, tree |-> tree, map |-> qt_item_map]

SetStore(st) ==
  /\ metadata_entries' = st.entries
  /\ tree' = st.tree
  /\ qt_item_map' = st.map

Ev(op, res, path) == [op |-> op, res |-> res, path |-> path]

\* what the user may type into a key field and into a value field
KeyInputs == {EmptyText, <<SP>>, <<SP, "Author", SP>>, KeyWidth}
ValueInputs == {EmptyText, <<SP, "x", NL>>}

\* __init__
HandlerInit ==
  /\ current_file = NoFile
  /\ current_image = NoImage
  /\ metadata_entries = <<>>
  /\ tree = <<>>
  /\ qt_item_map = <<>>
  /\ is_modified = FALSE
  /\ disk = InitDisk
  /\ dialog = NoDialog
  /\ last = Ev("init", "", NoFile)
  /\ nEdits = 0
  /\ nSaves = 0

Init ==
  /\ text = EmptyText
  /\ shown = EmptyText
  /\ calls = 0
  /\ HandlerInit

\* texts of n lines: words, words under a last line that is the marker,
\* empty lines, and words with a newline at the end
TextKinds == {"words", "marker", "blank", "newline"}

InputText(n, kind) ==
  CASE kind = "words" -> LinesText(n)
    [] kind = "marker" ->
         IF n <= 1 THEN <<"[...]">> ELSE LinesText(n - 1) \o <<NL, "[...]">>
    [] kind = "blank" -> [i \in 1..(n - 1) |-> NL]
    [] kind = "newline" -> LinesText(n - 1) \o <<NL>>

LimitInputs == {InputText(n, kind) : n \in 1..MaxTextLines, kind \in TextKinds}

\* a text handed to limit_text_lines
InitLimit ==
  /\ text \in LimitInputs
  /\ shown = text
  /\ calls = 0
  /\ HandlerInit

\* limit_text_lines(shown, max_lines=12), applied to what it returned last
call_limit_text_lines ==
  /\ calls < MaxCalls
  /\ calls' = calls + 1
  /\ shown' = limit_text_lines(shown, MaxLines)
  /\ UNCHANGED text
  /\ UNCHANGED handler_vars

Idle == dialog.kind = "none"

FlagAfterLoadKept == is_modified

\* line 68
FlagAfterLoad == FALSE

\* open_file / handle_drop with a chosen path: load_png_file(file_path)
load_png_file(file_path) ==
  LET f == disk[file_path]
      failed == Ev("load", "load_failed", file_path)
  IN
  /\ Idle
  /\ UNCHANGED limit_vars
  /\ current_file' = file_path
  /\ UNCHANGED <<disk, dialog, nEdits, nSaves>>
  /\ IF f.kind = "missing"
     THEN \* Image.open raises
          /\ last' = failed
          /\ UNCHANGED <<current_image, metadata_entries, tree, qt_item_map,
                         is_modified>>
     ELSE LET img == OpenImage(file_path, f)
              r == load_metadata(EmptyStore, img)
          IN  /\ current_image' = img
              /\ IF ~img.ok
                 THEN \* current_image.load() raises
                      /\ last' = failed
                      /\ UNCHANGED <<metadata_entries, tree, qt_item_map,
                                     is_modified>>
                 ELSE /\ SetStore(r.st)
                      /\ IF r.raised
                         THEN /\ last' = failed
                              /\ UNCHANGED is_modified
                         ELSE /\ is_modified' = FlagAfterLoad
                              /\ last' = Ev("load", "load_ok", file_path)

\* the index in metadata_entries of the entry stored under item_id, or 0
EntryIndex(item_id) ==
  IF \E i \in 1..Len(metadata_entries) : metadata_entries[i].id = item_id
  THEN CHOOSE i \in 1..Len(metadata_entries) : metadata_entries[i].id = item_id
  ELSE 0

\* lines 146-151, 299-304: the id under which qt_item_map holds a tree item
ItemIdOf(item) ==
  IF \E i \in 1..Len(qt_item_map) : qt_item_map[i] = item THEN item ELSE 0

EditableAlways(entry_data) == TRUE

\* line 157: entry_data['editable']
Editable(entry_data) == entry_data.editable

\* itemDoubleClicked on the row'th item of the tree
edit_metadata_item(row) ==
  LET item_id == ItemIdOf(tree[row].item)
      i == EntryIndex(item_id)
  IN
  /\ Idle
  /\ UNCHANGED limit_vars
  /\ row \in 1..Len(tree)
  /\ UNCHANGED <<current_file, current_image, metadata_entries, tree,
                 qt_item_map, is_modified, disk, nEdits, nSaves>>
  /\ IF item_id = 0 \/ i = 0
     THEN /\ last' = Ev("edit_item", "ignored", NoFile)
          /\ UNCHANGED dialog
     ELSE IF ~Editable(metadata_entries[i])
     THEN /\ last' = Ev("edit_item", "not_editable", NoFile)
          /\ UNCHANGED dialog
     ELSE \* create_edit_dialog: dialog.exec_()
          /\ dialog' = [kind |-> "edit", item_id |-> item_id]
          /\ last' = Ev("edit_item", "dialog", NoFile)

KeyNeverMissing(new_key) == FALSE

\* lines 206, 269: not new_key
KeyMissing(new_key) == new_key = EmptyText

\* the Save button of the edit dialog, with the fields' texts
save_edit_dialog_changes(key_text, value_text) ==
  LET new_key == Strip(key_text)
      new_value == Strip(value_text)
      display_value == limit_text_lines(new_value, MaxLines)
      item_id == dialog.item_id
      i == EntryIndex(item_id)
  IN
  /\ dialog.kind = "edit"
  /\ UNCHANGED limit_vars
  /\ key_text \in KeyInputs \cup {metadata_entries[i].key}
  /\ value_text \in ValueInputs \cup {metadata_entries[i].full_value}
  /\ UNCHANGED <<current_file, current_image, qt_item_map, disk, nSaves>>
  /\ IF KeyMissing(new_key)
     THEN /\ last' = Ev("edit", "key_empty", NoFile)
          /\ UNCHANGED <<metadata_entries, tree, is_modified, dialog, nEdits>>
     ELSE /\ nEdits < MaxEdits
          /\ nEdits' = nEdits + 1
          /\ metadata_entries' =
               [metadata_entries EXCEPT ![i].key = new_key,
                                        ![i].value = display_value,
                                        ![i].full_value = new_value]
          /\ tree' = [r \in 1..Len(tree) |->
                        IF tree[r].item = qt_item_map[
                             CHOOSE j \in 1..Len(qt_item_map) :
                               qt_item_map[j] = item_id]
                        THEN [tree[r] EXCEPT !.col0 = new_key,
                                             !.col1 = display_value]
                        ELSE tree[r]]
          /\ is_modified' = TRUE
          /\ dialog' = NoDialog
          /\ last' = Ev("edit", "edit_ok", NoFile)

\* the Cancel button of the edit or add dialog: dialog.reject
cancel_dialog ==
  /\ dialog.kind \in {"edit", "add"}
  /\ UNCHANGED limit_vars
  /\ dialog' = NoDialog
  /\ last' = Ev("cancel", dialog.kind, NoFile)
  /\ UNCHANGED <<current_file, current_image, metadata_entries, tree,
                 qt_item_map, is_modified, disk, nEdits, nSaves>>

\* the Add Field button
add_metadata_field ==
  /\ Idle
  /\ UNCHANGED limit_vars
  /\ UNCHANGED <<current_file, current_image, metadata_entries, tree,
                 qt_item_map, is_modified, disk, nEdits, nSaves>>
  /\ IF ~current_image.isimage
     THEN /\ last' = Ev("add_item", "load_first", NoFile)
          /\ UNCHANGED dialog
     ELSE /\ dialog' = [kind |-> "add", item_id |-> 0]
          /\ last' = Ev("add_item", "dialog", NoFile)

\* the Add button of the add dialog, with the fields' texts
add_field_dialog_changes(key_text, value_text) ==
  LET key == Strip(key_text)
      value == Strip(value_text)
      display_value == limit_text_lines(value, MaxLines)
  IN
  /\ dialog.kind = "add"
  /\ UNCHANGED limit_vars
  /\ UNCHANGED <<current_file, current_image, disk, nSaves>>
  /\ IF KeyMissing(key)
     THEN /\ last' = Ev("add", "key_empty", NoFile)
          /\ UNCHANGED <<metadata_entries, tree, qt_item_map, is_modified,
                         dialog, nEdits>>
     ELSE /\ nEdits < MaxEdits
          /\ nEdits' = nEdits + 1
          /\ SetStore(NewItem(Store, key, display_value, value, TRUE))
          /\ is_modified' = TRUE
          /\ dialog' = NoDialog
          /\ last' = Ev("add", "add_ok", NoFile)

RemoveAt(s, i) == SubSeq(s, 1, i - 1) \o SubSeq(s, i + 1, Len(s))

ConfirmedAnyway(reply) == TRUE

\* line 319: reply == QMessageBox.Yes
Confirmed(reply) == reply = "Yes"

\* the Remove Field button with the sel'th row selected (0: no selection)
\* and the user's answer to the confirmation
remove_metadata_field(sel, reply) ==
  LET item_id == ItemIdOf(tree[sel].item)
      i == EntryIndex(item_id)
  IN
  /\ Idle
  /\ UNCHANGED limit_vars
  /\ sel \in 0..Len(tree)
  /\ UNCHANGED <<current_file, current_image, disk, dialog, nSaves>>
  /\ IF sel = 0
     THEN /\ last' = Ev("remove", "select_field", NoFile)
          /\ UNCHANGED <<metadata_entries, tree, qt_item_map, is_modified,
                         nEdits>>
     ELSE IF item_id = 0 \/ i = 0
     THEN /\ last' = Ev("remove", "ignored", NoFile)
          /\ UNCHANGED <<metadata_entries, tree, qt_item_map, is_modified,
                         nEdits>>
     ELSE IF ~metadata_entries[i].editable
     THEN /\ last' = Ev("remove", "not_editable", NoFile)
          /\ UNCHANGED <<metadata_entries, tree, qt_item_map, is_modified,
                         nEdits>>
     ELSE IF ~Confirmed(reply)
     THEN /\ last' = Ev("remove", "declined", NoFile)
          /\ UNCHANGED <<metadata_entries, tree, qt_item_map, is_modified,
                         nEdits>>
     ELSE /\ nEdits < MaxEdits
          /\ nEdits' = nEdits + 1
          /\ tree' = RemoveAt(tree, sel)
          /\ metadata_entries' = RemoveAt(metadata_entries, i)
          /\ qt_item_map' = RemoveAt(qt_item_map,
                                     CHOOSE j \in 1..Len(qt_item_map) :
                                       qt_item_map[j] = item_id)
          /\ is_modified' = TRUE
          /\ last' = Ev("remove", "remove_ok", NoFile)

SavedValueAsShown(entry_data) == entry_data.value

\* line 366: the text written for an entry
SavedValue(entry_data) == entry_data.full_value

ReservedKeys == {KeyWidth, KeyHeight, KeyMode, KeyFormat}

SavesReserved(entry_data) ==
  /\ entry_data.editable
  /\ entry_data.key # EmptyText
  /\ entry_data.full_value # EmptyText

\* lines 362-365: the entries that get a text chunk
Persisted(entry_data) ==
  /\ entry_data.editable
  /\ entry_data.key # EmptyText
  /\ entry_data.full_value # EmptyText
  /\ entry_data.key \notin ReservedKeys

RECURSIVE AddTextReversed(_)
AddTextReversed(entries) ==
  IF entries = <<>> THEN <<>>
  ELSE LET e == entries[Len(entries)]
           rest == AddTextReversed(SubSeq(entries, 1, Len(entries) - 1))
       IN  IF Persisted(e) THEN <<<<e.key, StrV(SavedValue(e))>>>> \o rest
           ELSE rest

\* lines 359-366: png_info.add_text for each entry, in dict order
RECURSIVE AddText(_)
AddText(entries) ==
  IF entries = <<>> THEN <<>>
  ELSE LET e == entries[1]
           rest == AddText(Tail(entries))
       IN  IF Persisted(e) THEN <<<<e.key, StrV(SavedValue(e))>>>> \o rest
           ELSE rest

\* what can happen to a write: it succeeds, the file cannot be written, or
\* it is written and cannot be opened again
SaveOutcomes == {"ok", "write_fails", "reopen_fails"}

\* lines 355-387
save_metadata_to_file(op, file_path, outcome) ==
  LET png_info == AddText(metadata_entries)
      failed == Ev(op, "save_failed", file_path)
      written == PngFile(current_image.pix, TRUE, png_info)
  IN
  /\ UNCHANGED <<current_file, metadata_entries, tree, qt_item_map, dialog, nEdits>>
  /\ IF ~current_image.isimage \/ ~current_image.ok
     THEN \* current_image.copy() raises
          /\ last' = failed
          /\ UNCHANGED <<current_image, is_modified, disk, nSaves>>
     ELSE IF outcome = "write_fails"
     THEN \* temp_image.save raises
          /\ last' = failed
          /\ UNCHANGED <<current_image, is_modified, disk, nSaves>>
     ELSE /\ nSaves < MaxSaves
          /\ nSaves' = nSaves + 1
          /\ disk' = [disk EXCEPT ![file_path] = written]
          /\ IF file_path = current_file
             THEN /\ is_modified' = FALSE
                  /\ IF outcome = "reopen_fails"
                     THEN \* Image.open raises
                          /\ last' = failed
                          /\ UNCHANGED current_image
                     ELSE /\ current_image' = OpenImage(file_path, written)
                          /\ last' = Ev(op, "save_ok", file_path)
             ELSE /\ outcome = "ok"
                  /\ last' = Ev(op, "save_ok", file_path)
                  /\ UNCHANGED <<current_image, is_modified>>

\* the Save button
save_file(outcome) ==
  /\ Idle
  /\ UNCHANGED limit_vars
  /\ IF current_file = NoFile
     THEN /\ last' = Ev("save", "no_file", NoFile)
          /\ UNCHANGED <<current_file, current_image, metadata_entries, tree,
                         qt_item_map, is_modified, disk, dialog, nEdits, nSaves>>
     ELSE save_metadata_to_file("save", current_file, outcome)

\* what the user may pick in the Save As dialog; NoFile: the dialog is cancelled
SaveAsPaths == {NoFile, "new.png"}

\* the Save As button
save_as_file(file_path, outcome) ==
  /\ Idle
  /\ UNCHANGED limit_vars
  /\ IF ~current_image.isimage
     THEN /\ last' = Ev("save_as", "no_file", NoFile)
          /\ UNCHANGED <<current_file, current_image, metadata_entries, tree,
                         qt_item_map, is_modified, disk, dialog, nEdits, nSaves>>
     ELSE IF file_path = NoFile
     THEN /\ last' = Ev("save_as", "cancelled", NoFile)
          /\ UNCHANGED <<current_file, current_image, metadata_entries, tree,
                         qt_item_map, is_modified, disk, dialog, nEdits, nSaves>>
     ELSE save_metadata_to_file("save_as", file_path, outcome)

\* loading, editing, adding and removing
NextEdit ==
  \/ \E file_path \in Paths : load_png_file(file_path)
  \/ \E row \in 1..Len(tree) : edit_metadata_item(row)
  \/ \E k \in KeyInputs \cup {metadata_entries[i].key : i \in 1..Len(metadata_entries)},
        v \in ValueInputs \cup {metadata_entries[i].full_value : i \in 1..Len(metadata_entries)} :
       save_edit_dialog_changes(k, v)
  \/ cancel_dialog
  \/ add_metadata_field
  \/ \E k \in KeyInputs, v \in ValueInputs : add_field_dialog_changes(k, v)
  \/ \E sel \in 0..Len(tree), reply \in {"Yes", "No"} :
       remove_metadata_field(sel, reply)

\* loading and saving
NextRoundTrip ==
  \/ \E file_path \in Paths : load_png_file(file_path)
  \/ \E outcome \in SaveOutcomes : save_file(outcome)
  \/ \E file_path \in SaveAsPaths, outcome \in SaveOutcomes :
       save_as_file(file_path, outcome)

\* the files whose metadata are all text
TextFiles == {"a.png", "b.png"}

\* every handler, on files that open and whose metadata are text
NextSave ==
  \/ \E file_path \in TextFiles : load_png_file(file_path)
  \/ \E row \in 1..Len(tree) : edit_metadata_item(row)
  \/ \E k \in KeyInputs \cup {metadata_entries[i].key : i \in 1..Len(metadata_entries)},
        v \in ValueInputs \cup {metadata_entries[i].full_value : i \in 1..Len(metadata_entries)} :
       save_edit_dialog_changes(k, v)
  \/ cancel_dialog
  \/ add_metadata_field
  \/ \E k \in KeyInputs, v \in ValueInputs : add_field_dialog_changes(k, v)
  \/ \E sel \in 0..Len(tree), reply \in {"Yes", "No"} :
       remove_metadata_field(sel, reply)
  \/ \E outcome \in SaveOutcomes : save_file(outcome)
  \/ \E file_path \in SaveAsPaths, outcome \in SaveOutcomes :
       save_as_file(file_path, outcome)

Next ==
  \/ \E file_path \in Paths : load_png_file(file_path)
  \/ \E row \in 1..Len(tree) : edit_metadata_item(row)
  \/ \E k \in KeyInputs \cup {metadata_entries[i].key : i \in 1..Len(metadata_entries)},
        v \in ValueInputs \cup {metadata_entries[i].full_value : i \in 1..Len(metadata_entries)} :
       save_edit_dialog_changes(k, v)
  \/ cancel_dialog
  \/ add_metadata_field
  \/ \E k \in KeyInputs, v \in ValueInputs : add_field_dialog_changes(k, v)
  \/ \E sel \in 0..Len(tree), reply \in {"Yes", "No"} :
       remove_metadata_field(sel, reply)
  \/ \E outcome \in SaveOutcomes : save_file(outcome)
  \/ \E file_path \in SaveAsPaths, outcome \in SaveOutcomes :
       save_as_file(file_path, outcome)

\* every handler, in any order
Spec == Init /\ [][Next]_vars

\* sessions that never save
SpecEdit == Init /\ [][NextEdit]_vars

\* every handler, on the files that open and hold text
SpecSave == Init /\ [][NextSave]_vars

\* a file that loads, one whose metadata cannot be rendered and one whose
\* pixel data is cut short
FailFiles == {"a.png", "d.png", "t.png"}

\* loads that fail and loads that succeed, every change to the list, and Save
NextFailedLoads ==
  \/ \E file_path \in FailFiles : load_png_file(file_path)
  \/ \E row \in 1..Len(tree) : edit_metadata_item(row)
  \/ \E k \in KeyInputs \cup {metadata_entries[i].key : i \in 1..Len(metadata_entries)},
        v \in ValueInputs \cup {metadata_entries[i].full_value : i \in 1..Len(metadata_entries)} :
       save_edit_dialog_changes(k, v)
  \/ cancel_dialog
  \/ add_metadata_field
  \/ \E k \in KeyInputs, v \in ValueInputs : add_field_dialog_changes(k, v)
  \/ \E sel \in 0..Len(tree), reply \in {"Yes", "No"} :
       remove_metadata_field(sel, reply)
  \/ \E outcome \in SaveOutcomes : save_file(outcome)

SpecFailedLoads == Init /\ [][NextFailedLoads]_vars

\* limit_text_lines on its own
NextLimit == call_limit_text_lines

SpecLimit == InitLimit /\ [][NextLimit]_vars

\* sessions that load and save and never change an entry
SpecRoundTrip == Init /\ [][NextRoundTrip]_vars

(***************************************************************************)
(* Properties.                                                             *)
(***************************************************************************)
Entries == {metadata_entries[i] : i \in 1..Len(metadata_entries)}

\* C1: right after a successful load is_modified is false, and right after
\* a successful edit, add or confirmed remove it is true.
C1_DirtyFlagTransitions ==
  /\ last.res = "load_ok" => is_modified = FALSE
  /\ last.res \in {"edit_ok", "add_ok", "remove_ok"} => is_modified = TRUE

\* a load has just succeeded after entries were changed and never saved
C1_Witness == last.res = "load_ok" /\ nEdits > 0 /\ nSaves = 0

\* C2: a successful save writes one text chunk, holding the key and the
\* full_value, for each entry that is editable, has a non-empty key and a
\* non-empty full_value and whose key is no basic-info name, in list order,
\* and writes nothing else.
C2_SaveFilter ==
  last.res = "save_ok" =>
    LET kept == SelectSeq(metadata_entries,
                          LAMBDA e : /\ e.editable
                                     /\ e.key # <<>>
                                     /\ e.full_value # <<>>
                                     /\ e.key \notin {KeyWidth, KeyHeight,
                                                      KeyMode, KeyFormat})
        items == disk[last.path].items
    IN  /\ Len(items) = Len(kept)
        /\ \A i \in 1..Len(kept) :
             items[i] = <<kept[i].key, StrV(kept[i].full_value)>>
        /\ \A i \in 1..Len(items) : items[i][1] # KeyWidth

\* a save has just succeeded with an editable 'Image Width' entry in the
\* list, next to an entry whose shown value is truncated
C2_Witness ==
  /\ last.res = "save_ok"
  /\ \E e \in Entries : e.editable /\ e.key = KeyWidth /\ e.full_value # <<>>
  /\ \E e \in Entries : e.editable /\ e.value # e.full_value

\* the text metadata a file holds, as the decoder reports it
TextPairs(f) ==
  LET info == InfoDict(f.items, <<>>)
  IN  {info[i] : i \in 1..Len(info)}

\* C3 as stated: a successful load followed at once by a successful save to
\* another path writes exactly the key/value pairs of the loaded file,
\* whatever they are.
C3_RoundTripAnyMetadata ==
  [][(/\ last.res = "load_ok"
      /\ last'.res = "save_ok"
      /\ last'.path # last.path)
     => TextPairs(disk'[last'.path]) = TextPairs(disk[last.path])]_vars

\* every value the decoder reports is a non-empty string under a key that
\* is no basic-info name
PlainText(f) ==
  \A p \in TextPairs(f) :
    /\ p[2].t = "str"
    /\ p[2].s # <<>>
    /\ p[1] \notin {KeyWidth, KeyHeight, KeyMode, KeyFormat}

\* C3 amended: the round trip holds for a file whose metadata are non-empty
\* strings under keys other than the four basic-info names.
C3_RoundTripPlainText ==
  [][(/\ last.res = "load_ok"
      /\ PlainText(disk[last.path])
      /\ last'.res = "save_ok"
      /\ last'.path # last.path)
     => TextPairs(disk'[last'.path]) = TextPairs(disk[last.path])]_vars

\* a.png, whose value is longer than the lines shown, was loaded and then
\* saved under another name
C3_Witness ==
  /\ last.res = "save_ok"
  /\ last.path # current_file
  /\ current_image.filename = current_file
  /\ PlainText(disk[current_file])
  /\ \E e \in Entries : e.editable /\ e.value # e.full_value
  /\ TextPairs(disk[last.path]) # {}

\* the entries that share the key of entry i and are written by a save
Duplicates(i) ==
  {j \in 1..Len(metadata_entries) :
     /\ metadata_entries[j].editable
     /\ metadata_entries[j].key = metadata_entries[i].key}

\* C4 as stated: of the editable entries that share a key, the saved file
\* holds the full_value of the latest one, and only that.
C4_LastEditableWins ==
  last.res = "save_ok" =>
    \A i \in 1..Len(metadata_entries) :
      LET same == Duplicates(i)
          latest == CHOOSE j \in same : \A k \in same : k <= j
      IN  (/\ metadata_entries[i].editable
           /\ \E j \in same :
                metadata_entries[j].full_value # metadata_entries[i].full_value)
          => {p \in TextPairs(disk[last.path]) : p[1] = metadata_entries[i].key}
               = {<<metadata_entries[i].key,
                    StrV(metadata_entries[latest].full_value)>>}

\* the entries a save writes: editable, key and full_value not empty, key
\* no basic-info name
Written(e) ==
  /\ e.editable
  /\ e.key # <<>>
  /\ e.full_value # <<>>
  /\ e.key \notin {KeyWidth, KeyHeight, KeyMode, KeyFormat}

\* C4 amended: of the entries that a save writes and that share a key, the
\* saved file holds exactly one value for the key, the full_value of the
\* latest one.
C4_LastWrittenWins ==
  last.res = "save_ok" =>
    \A i \in 1..Len(metadata_entries) :
      LET same == {j \in Duplicates(i) : Written(metadata_entries[j])}
          latest == CHOOSE j \in same : \A k \in same : k <= j
      IN  Written(metadata_entries[i])
          => {p \in TextPairs(disk[last.path]) : p[1] = metadata_entries[i].key}
               = {<<metadata_entries[i].key,
                    StrV(metadata_entries[latest].full_value)>>}

\* a save has just succeeded with two written entries of one key and
\* different values
C4_Witness ==
  /\ last.res = "save_ok"
  /\ \E i, j \in 1..Len(metadata_entries) :
       /\ i < j
       /\ Written(metadata_entries[i])
       /\ Written(metadata_entries[j])
       /\ metadata_entries[i].key = metadata_entries[j].key
       /\ metadata_entries[i].full_value # metadata_entries[j].full_value

\* the row'th item of the tree shows a basic-info entry
BasicInfoRow(row) ==
  \E e \in Entries :
    /\ e.id = tree[row].item
    /\ ~e.editable
    /\ e.key \in {KeyWidth, KeyHeight, KeyMode, KeyFormat}

\* C5: an edit request or a remove request on a basic-info entry is
\* rejected; it leaves the entries, the tree and is_modified as they were,
\* opens no dialog and asks for no confirmation (the answer to one does not
\* matter).
C5_BasicInfoImmutable ==
  [][\A row \in 1..Len(tree) :
       (/\ BasicInfoRow(row)
        /\ \/ edit_metadata_item(row)
           \/ \E reply \in {"Yes", "No"} : remove_metadata_field(row, reply))
       => /\ last'.res = "not_editable"
          /\ dialog' = NoDialog
          /\ UNCHANGED <<metadata_entries, tree, qt_item_map, is_modified>>]_vars

\* an edit request on a basic-info entry has just been turned down, with
\* unsaved changes in the list
C5_Witness ==
  /\ last = Ev("edit_item", "not_editable", NoFile)
  /\ is_modified
  /\ \A row \in 1..4 : BasicInfoRow(row)

\* text that is empty or only whitespace
Blank(s) == \A i \in 1..Len(s) : s[i] \in {" ", "\n"}

\* C6: submitting an edit or an add with a key that is empty or only
\* whitespace is rejected; the entries, the tree and is_modified stay as
\* they were and the dialog stays open.
C6_EmptyKeyRejected ==
  [][\A k \in KeyInputs, v \in ValueInputs :
       (/\ Blank(k)
        /\ \/ save_edit_dialog_changes(k, v)
           \/ add_field_dialog_changes(k, v))
       => /\ last'.res = "key_empty"
          /\ dialog' = dialog
          /\ dialog.kind \in {"edit", "add"}
          /\ UNCHANGED <<metadata_entries, tree, qt_item_map, is_modified>>]_vars

\* an add with a blank key has just been rejected and its dialog is open
C6_Witness ==
  /\ last = Ev("add", "key_empty", NoFile)
  /\ dialog.kind = "add"

\* C7: a save that reports a failure leaves the entries, the current image
\* and is_modified as they were.
C7_FailedSaveChangesNothing ==
  [][last'.res = "save_failed"
     => UNCHANGED <<metadata_entries, tree, qt_item_map, current_image,
                    is_modified>>]_vars

\* C8: a load that fails leaves current_file, current_image, the entries
\* and is_modified as they were.
C8_FailedLoadChangesNothing ==
  [][last'.res = "load_failed"
     => UNCHANGED <<current_file, current_image, metadata_entries,
                    qt_item_map, is_modified>>]_vars

\* C9: a successful save clears is_modified exactly when it writes the path
\* the current image was loaded from, and otherwise leaves it as it was.
C9_SaveClearsOnlyLoadedFile ==
  [][last'.res = "save_ok"
     => IF last'.path = current_image.filename
        THEN is_modified' = FALSE
        ELSE is_modified' = is_modified]_vars

\* C10: the value shown for an entry is its full_value cut to 12 lines.
C10_DisplayFromFullValue ==
  \A e \in Entries : e.value = limit_text_lines(e.full_value, MaxLines)

\* the first four entries are the basic-info block of image img
BasicInfoBlock(img) ==
  /\ Len(metadata_entries) >= 4
  /\ \A i \in 1..4 :
       /\ ~metadata_entries[i].editable
       /\ metadata_entries[i].key = <<KeyWidth, KeyHeight, KeyMode, KeyFormat>>[i]
       /\ metadata_entries[i].value =
            << <<ToString(Width(img))>>, <<ToString(Height(img))>>,
               <<Mode(img)>>, <<"PNG">> >>[i]
       /\ metadata_entries[i].full_value = metadata_entries[i].value

\* C11: once an image is loaded, the first four entries are non-editable
\* entries with keys 'Image Width', 'Image Height', 'Image Mode' and
\* 'Image Format' in that order, holding the loaded image's width, height,
\* mode and format, and no step other than a load changes them.
C11_BasicInfoBlock ==
  /\ [](current_image.isimage => BasicInfoBlock(current_image))
  /\ [][(current_image.isimage /\ last'.op # "load")
        => SubSeq(metadata_entries', 1, 4) = SubSeq(metadata_entries, 1, 4)]_vars

\* a save to the loaded path has re-opened the image after an entry was
\* changed, and the list holds an editable entry named like a basic-info one
C11_Witness ==
  /\ last = Ev("save", "save_ok", current_file)
  /\ nEdits > 0
  /\ BasicInfoBlock(current_image)
  /\ \E e \in Entries : e.editable /\ e.key = KeyWidth

\* C12: applying limit_text_lines to a text it returned gives the same text
\* back: no second marker is added.
C12_TruncationIdempotent ==
  [][calls >= 1 => shown' = shown]_vars

\* a text of more than 12 lines that ends with the marker line was cut, and
\* the result was cut again
C12_Witness ==
  /\ calls = 2
  /\ text # EmptyText
  /\ text[Len(text)] = "[...]"
  /\ shown # text
  /\ shown[Len(shown)] = "[...]"

\* the positions of the newlines of s
Newlines(s) == {i \in 1..Len(s) : s[i] = NL}

\* the first n lines of s, which has more than n lines
FirstLines(s, n) ==
  LET p == CHOOSE i \in Newlines(s) :
             Cardinality({j \in Newlines(s) : j <= i}) = n
  IN  SubSeq(s, 1, p - 1)

\* C13: a text of at most 12 lines is returned as it is; a text of more than
\* 12 lines is returned as its first 12 lines, a newline and '[...]'.
C13_TruncationThreshold ==
  calls = 1 =>
    IF Cardinality(Newlines(text)) < MaxLines
    THEN shown = text
    ELSE shown = FirstLines(text, MaxLines) \o <<NL, "[...]">>

\* a text of 13 lines has been cut
C13_Witness ==
  /\ calls = 1
  /\ Cardinality(Newlines(text)) = MaxLines
  /\ shown # text
  /\ Cardinality(Newlines(shown)) = MaxLines

\* C14: right after a successful load of an image without text metadata the
\* list holds the four basic-info entries and exactly one more, the
\* non-editable placeholder 'No PNG metadata' / 'found in this file'.
C14_NoMetadataPlaceholder ==
  (last.res = "load_ok" /\ current_image.info = <<>>)
    => /\ Len(metadata_entries) = 5
       /\ Cardinality({i \in 1..Len(metadata_entries) :
                         /\ ~metadata_entries[i].editable
                         /\ metadata_entries[i].key =
                              <<"No", SP, "PNG", SP, "metadata">>
                         /\ metadata_entries[i].value =
                              <<"found", SP, "in", SP, "this", SP, "file">>}) = 1

\* no load has got as far as filling the list: no image is loaded
NoImageLoaded == metadata_entries = <<>>

\* the Add Field button does nothing while no image is loaded
AddNeedsImage ==
  (NoImageLoaded /\ add_metadata_field)
    => /\ dialog' = NoDialog
       /\ UNCHANGED <<metadata_entries, tree, qt_item_map, is_modified>>

\* an add with a key that is not blank appends one editable entry made of
\* the trimmed texts and leaves the entries before it as they were
AddAppends ==
  \A k \in KeyInputs, v \in ValueInputs :
    (add_field_dialog_changes(k, v) /\ ~Blank(k))
      => LET n == Len(metadata_entries)
             e == metadata_entries'[n + 1]
         IN  /\ Len(metadata_entries') = n + 1
             /\ SubSeq(metadata_entries', 1, n) = metadata_entries
             /\ e.editable
             /\ e.key = Strip(k)
             /\ e.full_value = Strip(v)
             /\ e.value = limit_text_lines(e.full_value, MaxLines)
             /\ ~Blank(<<e.key[1]>>) /\ ~Blank(<<e.key[Len(e.key)]>>)

\* C15: add_metadata_field leaves the store alone and opens no dialog when
\* no image is loaded; with an image loaded and a key that is not blank, an
\* add appends exactly one editable entry with key = trim(key), full_value =
\* trim(value) and value = limit_text_lines(full_value, 12), and changes no
\* other entry.
C15_AddContract == [][AddNeedsImage /\ AddAppends]_vars

\* C16: Save writes only the file the current image was loaded from.
C16_SaveWritesLoadedFile ==
  [][(last'.op = "save" /\ nSaves' # nSaves)
     => last'.path = current_image.filename]_vars

C18_CleanMeansOnDisk ==
  (current_image.isimage /\ ~is_modified)
    => /\ disk[current_file].kind = "png"
       /\ TextPairs(disk[current_file])
            = TextPairs(PngFile(current_image.pix, TRUE,
                                AddText(metadata_entries)))

\* the identifiers of the entries, in list order
Ids(entries) == [i \in 1..Len(entries) |-> entries[i].id]

\* what a step that is no load may do to the list: an edit rewrites the
\* entry of its dialog in place, an add appends an entry under an unused
\* identifier, a remove takes out one entry, anything else changes nothing
StableStep ==
  LET n == Len(metadata_entries)
  IN  CASE last'.res = "edit_ok" ->
             /\ Ids(metadata_entries') = Ids(metadata_entries)
             /\ \A i \in 1..n :
                  metadata_entries[i].id # dialog.item_id
                    => metadata_entries'[i] = metadata_entries[i]
        [] last'.res = "add_ok" ->
             /\ Len(metadata_entries') = n + 1
             /\ SubSeq(metadata_entries', 1, n) = metadata_entries
             /\ \A i \in 1..n :
                  metadata_entries[i].id # metadata_entries'[n + 1].id
        [] last'.res = "remove_ok" ->
             \E i \in 1..n : metadata_entries' = RemoveAt(metadata_entries, i)
        [] OTHER -> metadata_entries' = metadata_entries

\* a confirmed remove takes out the entry of the selected row
RemovesSelected ==
  \A sel \in 1..Len(tree) :
    (remove_metadata_field(sel, "Yes") /\ last'.res = "remove_ok")
      => /\ \A e \in Entries : e.id = tree[sel].item
              => \A i \in 1..Len(metadata_entries') : metadata_entries'[i] # e
         /\ \A i \in 1..Len(metadata_entries) :
              metadata_entries[i].id # tree[sel].item
                => \E j \in 1..Len(metadata_entries') :
                     metadata_entries'[j] = metadata_entries[i]

\* C19: a step other than a load keeps the entries it does not touch in
\* their order: an edit keeps its entry's place and identifier, an add only
\* appends, a remove deletes only the selected entry; and no two entries
\* ever share an identifier.
C19_StableOrderAndIdentity ==
  /\ [](Cardinality({metadata_entries[i].id : i \in 1..Len(metadata_entries)})
          = Len(metadata_entries))
  /\ [][last'.op # "load" => (StableStep /\ RemovesSelected)]_vars

\* the first of b.png's two text entries has been renamed and is still
\* fifth in the list
C19_Witness ==
  /\ last.res = "edit_ok"
  /\ Len(metadata_entries) = 6
  /\ metadata_entries[5].key = KeyAuthor
  /\ metadata_entries[6].key = <<"Empty">>

\* C20: a remove request deletes an entry and sets is_modified only when the
\* answer is Yes, and then deletes the selected entry; a declined remove, a
\* remove with nothing selected and a cancelled dialog leave the entries, the
\* tree and is_modified as they were.
C20_CancellationChangesNothing ==
  [][/\ \A sel \in 0..Len(tree) :
          (remove_metadata_field(sel, "No") \/ remove_metadata_field(0, "Yes"))
            => UNCHANGED <<metadata_entries, tree, qt_item_map, is_modified>>
     /\ cancel_dialog
          => UNCHANGED <<metadata_entries, tree, qt_item_map, is_modified>>
     /\ \A sel \in 1..Len(tree) :
          (/\ remove_metadata_field(sel, "Yes")
           /\ \E e \in Entries : e.id = tree[sel].item /\ e.editable)
            => /\ is_modified'
               /\ Len(metadata_entries') = Len(metadata_entries) - 1
               /\ \A i \in 1..Len(metadata_entries') :
                    metadata_entries'[i].id # tree[sel].item]_vars

\* a remove has just been declined while unsaved changes were pending
C20_Witness ==
  /\ last = Ev("remove", "declined", NoFile)
  /\ is_modified
  /\ nEdits > 0

====
